---------------------------- MODULE Spec2Model ----------------------------
(***************************************************************************)
(* A model of src/expense_note_llm.py: the sqlite store (categories,       *)
(* subcategories, expenses), the Streamlit page run main() split into the  *)
(* runs a user can cause (a plain run, a form submission, a batch delete,  *)
(* a report for a period), and the pure helpers they use.  The third tab   *)
(* (lines 433-459: the call of the language model and the table shown      *)
(* after it) is not part of the model.                                     *)
(*                                                                         *)
(* TLA+ strings are ASCII: the Korean literals of the source are written   *)
(* romanised, the original is given in a comment where it is introduced.   *)
(* An optional value (a nullable column, Python's None) is a sequence of   *)
(* length 0 or 1.  Amounts are the integers int() produces; sqlite stores  *)
(* them in a REAL column and pandas sums them as floats, which is exact    *)
(* for the magnitudes modelled.                                            *)
(***************************************************************************)
EXTENDS Integers, Sequences, FiniteSets, TLC

VARIABLES categories, subcategories, expenses, sqlite_sequence, ui,
          conn, write_lock

vars == <<categories, subcategories, expenses, sqlite_sequence, ui,
          conn, write_lock>>

(***************************************************************************)
(* Bounds of the model.                                                    *)
(***************************************************************************)
\* AUTOINCREMENT never reuses an id: the expenses counter is capped here.
MaxId == 2

None == <<>>
Some(x) == <<x>>

(***************************************************************************)
(* init_db: the default rows.                                              *)
(***************************************************************************)
\* name, budget, color.  In source order:
\* 주거비, 대출이자, 통신비, 교통비, 보험료, 주택청약, 적금, 생활비, 구독료, 회비, 투자, 기타
default_categories ==
    << <<"jugeobi", 500000, "#FF6B6B">>,
       <<"daechul-ija", 200000, "#4ECDC4">>,
       <<"tongsinbi", 800000, "#45B7D1">>,
       <<"gyotongbi", 100000, "#96CEB4">>,
       <<"boheomryo", 200000, "#D4A5A5">>,
       <<"jutaek-cheongyak", 300000, "#9B89B3">>,
       <<"jeokgeum", 400000, "#FAD02E">>,
       <<"saenghwalbi", 200000, "#95A5A6">>,
       <<"gudokryo", 150000, "#E59866">>,
       <<"hoebi", 50000, "#A29BFE">>,
       <<"tuja", 700000, "#6C5B7B">>,
       <<"gita", 100000, "#B8B8B8">> >>

\* The dict of the source as its items, in insertion order.
default_subcategories ==
    << <<"jugeobi", <<"gwanlibi", "jeongise", "sudose", "nanbangbi">> >>,
       <<"daechul-ija", <<"jeonse-daechul", "gita-daechul">> >>,
       <<"tongsinbi", <<"internet", "handphone", "TV">> >>,
       <<"gyotongbi", <<"jihacheol", "bus", "rent-car", "taxi", "juyu">> >>,
       <<"boheomryo", <<"jiseong-boheomryo", "seungmi-boheomryo">> >>,
       <<"jutaek-cheongyak", <<"cheongyak-tongjang">> >>,
       <<"jeokgeum", <<"eunhaeng-jeokgeum", "gaein-yeongeum">> >>,
       <<"saenghwalbi", <<"sikbi", "sikryopum-gumae", "oesik", "gita-saenghwalbi">> >>,
       <<"gudokryo", <<"netflix", "youtube-premium", "eumak-service", "gita-gudokryo">> >>,
       <<"hoebi", <<"donghohoe-hoebi", "gajok-hoebi", "gita-hoebi">> >>,
       <<"tuja", <<"jusik", "gasang-jasan", "fund", "gita-tuja">> >>,
       <<"gita", <<"gita">> >> >>

\* The store as one value, for the operators that take and return it.
DB ==
    [categories |-> categories, subcategories |-> subcategories,
     expenses |-> expenses, sqlite_sequence |-> sqlite_sequence]

\* The loop of lines 84-88: one INSERT per default category; the UNIQUE
\* constraint on name raises IntegrityError, which the loop swallows.
RECURSIVE InsertCategories(_, _, _)
InsertCategories(rows, seq, i) ==
    IF i > Len(default_categories)
    THEN [rows |-> rows, seq |-> seq]
    ELSE LET cat == default_categories[i] IN
         IF \E r \in rows : r.name = cat[1]
         THEN InsertCategories(rows, seq, i + 1)
         ELSE InsertCategories(
                  rows \cup {[id |-> seq + 1, name |-> cat[1],
                              budget |-> cat[2], color |-> cat[3]]},
                  seq + 1, i + 1)

\* Lines 68-89: seed the categories when the table is empty.
SeedCategories(db) ==
    IF Cardinality(db.categories) = 0
    THEN LET ins == InsertCategories(db.categories, db.sqlite_sequence.categories, 1) IN
         [db EXCEPT !.categories = ins.rows,
                    !.sqlite_sequence.categories = ins.seq]
    ELSE db

\* The inner loop of lines 112-113: one INSERT per subcategory name.
RECURSIVE InsertSubs(_, _, _, _, _)
InsertSubs(rows, seq, cat_id, subcats, j) ==
    IF j > Len(subcats)
    THEN [rows |-> rows, seq |-> seq]
    ELSE InsertSubs(
             rows \cup {[id |-> seq + 1, category_id |-> cat_id, name |-> subcats[j]]},
             seq + 1, cat_id, subcats, j + 1)

\* The outer loop of lines 107-113: look the category up by name, skip the
\* item when there is no such category.
RECURSIVE InsertSubcategories(_, _, _, _)
InsertSubcategories(cats, rows, seq, i) ==
    IF i > Len(default_subcategories)
    THEN [rows |-> rows, seq |-> seq]
    ELSE LET cat_name == default_subcategories[i][1]
             subcats == default_subcategories[i][2]
             found == {r \in cats : r.name = cat_name}
         IN  IF found = {}
             THEN InsertSubcategories(cats, rows, seq, i + 1)
             ELSE LET cat_id == (CHOOSE r \in found : TRUE).id
                      ins == InsertSubs(rows, seq, cat_id, subcats, 1)
                  IN  InsertSubcategories(cats, ins.rows, ins.seq, i + 1)

SeedSubcategoriesAlways(db) ==
    LET ins == InsertSubcategories(db.categories, db.subcategories,
                                   db.sqlite_sequence.subcategories, 1) IN
    [db EXCEPT !.subcategories = ins.rows,
               !.sqlite_sequence.subcategories = ins.seq]

\* Lines 91-114: seed the subcategories when the table is empty.
SeedSubcategories(db) ==
    IF Cardinality(db.subcategories) = 0
    THEN LET ins == InsertSubcategories(db.categories, db.subcategories,
                                        db.sqlite_sequence.subcategories, 1) IN
         [db EXCEPT !.subcategories = ins.rows,
                    !.sqlite_sequence.subcategories = ins.seq]
    ELSE db

\* init_db on a store that is reachable: the tables exist (CREATE TABLE IF
\* NOT EXISTS, and the expenses table already has subcategory_id), so what
\* is left is the two seedings.
init_db(db) == SeedSubcategories(SeedCategories(db))

(***************************************************************************)
(* Queries.                                                                *)
(***************************************************************************)
\* get_categories: SELECT * FROM categories (the ORDER BY only orders the
\* select box).
get_categories(db) == db.categories

get_subcategories_all(db, category_id) == db.subcategories

\* get_subcategories: the subcategories of one category.
get_subcategories(db, category_id) ==
    {s \in db.subcategories : s.category_id = category_id}

\* The columns of the query of get_expenses, in SELECT order.
get_expenses_columns ==
    <<"id", "date", "amount", "description", "payment_method",
      "is_fixed_expense", "category", "color", "budget", "subcategory">>

\* One row of get_expenses: expense e joined with its category c.
JoinedRow(db, e, c) ==
    LET subs == {s \in db.subcategories : Some(s.id) = e.subcategory_id} IN
    [id |-> e.id, date |-> e.date, amount |-> e.amount,
     description |-> e.description, payment_method |-> e.payment_method,
     is_fixed_expense |-> e.is_fixed_expense,
     category |-> c.name, color |-> c.color, budget |-> c.budget,
     subcategory |-> IF subs = {} THEN None
                     ELSE Some((CHOOSE s \in subs : TRUE).name)]

\* get_expenses: expenses JOIN categories LEFT JOIN subcategories.  The
\* result is taken as the set of its rows (ORDER BY e.date DESC leaves the
\* order of equal dates open).
get_expenses(db) ==
    {JoinedRow(db, e, c) : <<e, c>> \in
        {p \in db.expenses \X db.categories : p[1].category_id = p[2].id}}

(***************************************************************************)
(* The amount field of the form: int(amount_str.replace(",", "")).         *)
(* A text is a sequence of one-character strings.                          *)
(***************************************************************************)
DigitValue ==
    [c \in {"0", "1", "2", "3", "4", "5", "6", "7", "8", "9"} |->
        CASE c = "0" -> 0 [] c = "1" -> 1 [] c = "2" -> 2 [] c = "3" -> 3
          [] c = "4" -> 4 [] c = "5" -> 5 [] c = "6" -> 6 [] c = "7" -> 7
          [] c = "8" -> 8 [] c = "9" -> 9]

IsDigit(c) == c \in DOMAIN DigitValue

\* str.replace(",", "")
RemoveCommas(s) == SelectSeq(s, LAMBDA c : c # ",")

\* int() ignores surrounding whitespace.
RECURSIVE Strip(_)
Strip(s) ==
    IF s = <<>> THEN s
    ELSE IF Head(s) = " " THEN Strip(Tail(s))
    ELSE IF s[Len(s)] = " " THEN Strip(SubSeq(s, 1, Len(s) - 1))
    ELSE s

\* The digits of an int literal: digits, single underscores between them.
WellFormedDigits(s) ==
    /\ s # <<>>
    /\ IsDigit(s[1]) /\ IsDigit(s[Len(s)])
    /\ \A i \in 1..Len(s) : IsDigit(s[i]) \/ s[i] = "_"
    /\ \A i \in 1..(Len(s) - 1) : ~(s[i] = "_" /\ s[i + 1] = "_")

RECURSIVE DigitsValue(_, _)
DigitsValue(s, acc) ==
    IF s = <<>> THEN acc
    ELSE IF Head(s) = "_" THEN DigitsValue(Tail(s), acc)
    ELSE DigitsValue(Tail(s), acc * 10 + DigitValue[Head(s)])

\* Python's int(text): [ok |-> TRUE, value |-> n], or [ok |-> FALSE] for
\* ValueError.
PyInt(text) ==
    LET s == Strip(text)
        signed == s # <<>> /\ Head(s) \in {"+", "-"}
        digits == IF signed THEN Tail(s) ELSE s
    IN  IF WellFormedDigits(digits)
        THEN [ok |-> TRUE,
              value |-> IF signed /\ Head(s) = "-"
                        THEN 0 - DigitsValue(digits, 0)
                        ELSE DigitsValue(digits, 0)]
        ELSE [ok |-> FALSE]

ParseAmountClamped(amount_str) ==
    IF amount_str = <<>> THEN 1
    ELSE LET r == PyInt(RemoveCommas(amount_str)) IN
         IF r.ok THEN (IF r.value > 0 THEN r.value ELSE 1) ELSE 1

\* Lines 308-311: amount = int(amount_str.replace(",", "")) if amount_str
\* else 0; a ValueError gives 0.
ParseAmount(amount_str) ==
    IF amount_str = <<>> THEN 0
    ELSE LET r == PyInt(RemoveCommas(amount_str)) IN
         IF r.ok THEN r.value ELSE 0

(***************************************************************************)
(* Writes.                                                                 *)
(***************************************************************************)
\* add_expense: one INSERT, the id from the AUTOINCREMENT counter.
add_expense(db, date, category_id, subcategory_id, amount, description, payment_method, is_fixed) ==
    LET id == db.sqlite_sequence.expenses + 1 IN
    [db EXCEPT !.expenses = @ \cup
                   {[id |-> id, date |-> date, category_id |-> category_id,
                     subcategory_id |-> subcategory_id, amount |-> amount,
                     description |-> description,
                     payment_method |-> payment_method,
                     is_fixed_expense |-> is_fixed]},
               !.sqlite_sequence.expenses = id]

delete_expense_upto(db, expense_id) ==
    [db EXCEPT !.expenses = {e \in @ : e.id > expense_id}]

\* delete_expense: DELETE FROM expenses WHERE id = ?
delete_expense(db, expense_id) ==
    [db EXCEPT !.expenses = {e \in @ : e.id # expense_id}]

\* The loop of lines 485-486 over the checked ids.
RECURSIVE DeleteAll(_, _)
DeleteAll(db, ids) ==
    IF ids = {} THEN db
    ELSE LET eid == CHOOSE x \in ids : TRUE IN
         DeleteAll(delete_expense(db, eid), ids \ {eid})

(***************************************************************************)
(* Dates.  A date object is [year, month, day]; a datetime also has secs,  *)
(* the seconds since midnight.  The text strftime("%Y-%m-%d") writes is    *)
(* the triple of its fields, and a pandas Timestamp is [ord, secs] with    *)
(* ord the proleptic Gregorian ordinal of the day.                         *)
(***************************************************************************)
is_leap(y) == y % 4 = 0 /\ (y % 100 # 0 \/ y % 400 = 0)

days_in_month(y, m) ==
    IF m = 2 THEN (IF is_leap(y) THEN 29 ELSE 28)
    ELSE IF m \in {4, 6, 9, 11} THEN 30 ELSE 31

RECURSIVE days_before_month(_, _)
days_before_month(y, m) ==
    IF m = 1 THEN 0 ELSE days_before_month(y, m - 1) + days_in_month(y, m - 1)

days_before_year(y) ==
    (y - 1) * 365 + ((y - 1) \div 4) - ((y - 1) \div 100) + ((y - 1) \div 400)

\* date.toordinal()
ymd2ord(y, m, d) == days_before_year(y) + days_before_month(y, m) + d

\* date.fromordinal(n)
ord2ymd(n) ==
    LET n0 == n - 1
        n400 == n0 \div 146097
        r400 == n0 % 146097
        n100 == r400 \div 36524
        r100 == r400 % 36524
        n4 == r100 \div 1461
        r4 == r100 % 1461
        n1 == r4 \div 365
        r1 == r4 % 365
        y == n400 * 400 + n100 * 100 + n4 * 4 + n1 + 1
    IN  IF n1 = 4 \/ n100 = 4
        THEN [year |-> y - 1, month |-> 12, day |-> 31]
        ELSE LET m == CHOOSE k \in 1..12 :
                          /\ days_before_month(y, k) <= r1
                          /\ r1 < days_before_month(y, k) + days_in_month(y, k)
             IN  [year |-> y, month |-> m, day |-> r1 - days_before_month(y, m) + 1]

\* date.strftime("%Y-%m-%d"), line 320
strftime(d) == <<d.year, d.month, d.day>>

\* A date taken as the datetime at its midnight.
AtMidnight(d) == [year |-> d.year, month |-> d.month, day |-> d.day, secs |-> 0]

\* datetime - timedelta(days=n)
MinusDays(dt, n) ==
    LET d == ord2ymd(ymd2ord(dt.year, dt.month, dt.day) - n) IN
    [year |-> d.year, month |-> d.month, day |-> d.day, secs |-> dt.secs]

\* pd.to_datetime of a date text of the store
TextToTimestamp(text) == [ord |-> ymd2ord(text[1], text[2], text[3]), secs |-> 0]

\* pd.to_datetime of a datetime
ToTimestamp(dt) == [ord |-> ymd2ord(dt.year, dt.month, dt.day), secs |-> dt.secs]

\* Timestamp to the datetime of the same instant
FromTimestamp(ts) ==
    LET d == ord2ymd(ts.ord) IN
    [year |-> d.year, month |-> d.month, day |-> d.day, secs |-> ts.secs]

TsLeq(a, b) == a.ord < b.ord \/ (a.ord = b.ord /\ a.secs <= b.secs)

\* start_date > end_date on two date objects, line 258
DateGreater(a, b) ==
    \/ a.year > b.year
    \/ a.year = b.year /\ a.month > b.month
    \/ a.year = b.year /\ a.month = b.month /\ a.day > b.day

(***************************************************************************)
(* What the user can enter.                                                *)
(***************************************************************************)
\* "현금", "신용카드", "체크카드", "계좌이체", "기타", line 313
PaymentMethods == {"hyeongeum", "sinyong-card", "check-card", "gyejwa-iche", "gita"}

\* Amount texts that are empty, unparsable, zero or negative.
BadAmountTexts ==
    { <<>>, <<"a", "b", "c">>, <<"0">>, <<"-", "5">>, <<"1", ".", "5">>,
      <<"-", "1", ",", "0", "0", "0">> }

\* Amount texts that denote a positive integer.
GoodAmountTexts ==
    { <<"1", ",", "0", "0", "0">>, <<"5", "0", "0", "0", "0">> }

\* The free fields of the form (lines 307-314) as they are filled in.
Fillings ==
    {[amount_str |-> <<"1", ",", "0", "0", "0">>, description |-> "",
      payment_method |-> "hyeongeum", is_fixed |-> FALSE],
     [amount_str |-> <<"5", "0", "0", "0", "0">>, description |-> "jeomsim",
      payment_method |-> "sinyong-card", is_fixed |-> TRUE]}
    \cup {[amount_str |-> t, description |-> "jeomsim",
           payment_method |-> "check-card", is_fixed |-> FALSE] :
              t \in BadAmountTexts}

FormDates ==
    { [year |-> 2024, month |-> 2, day |-> 29],
      [year |-> 2024, month |-> 3, day |-> 1] }

\* The category and the subcategory picked in the two select boxes.  The
\* last two are pairs the boxes never offer (a subcategory of another
\* category, no subcategory where there are some): Selectable rules them out.
FormSelections ==
    { <<"gita", Some("gita")>>,
      <<"daechul-ija", Some("jeonse-daechul")>>,
      <<"daechul-ija", Some("gita-daechul")>>,
      <<"gita", Some("jeonse-daechul")>>,
      <<"gita", None>> }

FormInputs ==
    {[expense_date |-> d, selected_category |-> sel[1],
      selected_subcategory |-> sel[2], amount_str |-> f.amount_str,
      description |-> f.description, payment_method |-> f.payment_method,
      is_fixed |-> f.is_fixed] :
        d \in FormDates, sel \in FormSelections, f \in Fillings}

(***************************************************************************)
(* The runs of main().  Every run starts with init_db (line 275).          *)
(***************************************************************************)
Store(db) ==
    /\ categories' = db.categories
    /\ subcategories' = db.subcategories
    /\ expenses' = db.expenses
    /\ sqlite_sequence' = db.sqlite_sequence
    /\ UNCHANGED <<conn, write_lock>>

\* The two executions of init_db that may run at the same time (Streamlit
\* runs main() of every session in a thread of its own).
Procs == {"A", "B"}

Init ==
    /\ categories = {}
    /\ subcategories = {}
    /\ expenses = {}
    /\ sqlite_sequence = [categories |-> 0, subcategories |-> 0, expenses |-> 0]
    /\ ui = [op |-> "none"]
    /\ conn = [p \in Procs |->
                  [pc |-> "count_categories", i |-> 1, j |-> 1,
                   cat_id |-> None, txn |-> None]]
    /\ write_lock = None

\* A run in which the user does nothing but look at the page.
InitDb ==
    /\ Store(init_db(DB))
    /\ ui' = [op |-> "init_db"]

\* Lines 290-302: the ids of the selected category and subcategory.
SelectedCategoryId(db, selected_category) ==
    (CHOOSE c \in get_categories(db) : c.name = selected_category).id

SelectedSubcategoryId(db, category_id, selected_subcategory) ==
    LET subcats_df == get_subcategories(db, category_id) IN
    IF subcats_df # {}
    THEN Some((CHOOSE s \in subcats_df : Some(s.name) = selected_subcategory).id)
    ELSE None

\* The select boxes offer the names the queries returned.
Selectable(db, in) ==
    /\ \E c \in get_categories(db) : c.name = in.selected_category
    /\ LET subcats_df ==
               get_subcategories(db, SelectedCategoryId(db, in.selected_category))
       IN  IF subcats_df # {}
           THEN \E s \in subcats_df : Some(s.name) = in.selected_subcategory
           ELSE in.selected_subcategory = None

\* Lines 305-321: the form is submitted with the values `in`.
SubmitForm(in) ==
    LET db == init_db(DB)
        category_id == SelectedCategoryId(db, in.selected_category)
        subcategory_id == SelectedSubcategoryId(db, category_id, in.selected_subcategory)
        amount == ParseAmount(in.amount_str)
    IN  /\ get_categories(db) # {}
        /\ Selectable(db, in)
        /\ IF amount <= 0
           THEN /\ Store(db)
                \* "금액을 정확히 입력하세요."
                /\ ui' = [op |-> "submit", msg |-> "error-amount",
                          amount_str |-> in.amount_str, in |-> None]
           ELSE /\ db.sqlite_sequence.expenses < MaxId
                /\ Store(add_expense(db, strftime(in.expense_date), category_id,
                                     subcategory_id, amount, in.description,
                                     in.payment_method, in.is_fixed))
                \* "지출이 저장되었습니다."
                /\ ui' = [op |-> "submit", msg |-> "saved",
                          amount_str |-> in.amount_str, in |-> Some(in)]

\* Lines 465-488: the rows checked in the delete list are deleted.
DeleteSelected(delete_ids) ==
    LET db == init_db(DB)
        expenses_for_delete == get_expenses(db)
    IN  /\ expenses_for_delete # {}
        /\ delete_ids \subseteq {row.id : row \in expenses_for_delete}
        /\ Store(DeleteAll(db, delete_ids))
        \* "선택한 항목이 삭제되었습니다."
        /\ ui' = [op |-> "delete-selected", msg |-> "deleted", ids |-> delete_ids]

\* delete_expense(expense_id) on its own, with any id: one that is in the
\* table or one that is not (the try block raises for neither).
DeleteExpense(expense_id) ==
    /\ Store(delete_expense(DB, expense_id))
    \* "선택한 지출 항목이 삭제되었습니다."
    /\ ui' = [op |-> "delete_expense", msg |-> "success", id |-> expense_id]

Next ==
    \/ InitDb
    \/ \E in \in FormInputs : SubmitForm(in)
    \/ \E delete_ids \in SUBSET (1..MaxId) : DeleteSelected(delete_ids)
    \/ \E expense_id \in 1..(MaxId + 1) : DeleteExpense(expense_id)

Spec == Init /\ [][Next]_vars

(***************************************************************************)
(* The report of a run: lines 334-431.                                     *)
(***************************************************************************)
\* "전체", "이번 달", "지난 달", "최근 3개월", "최근 6개월", "올해", "사용자 지정"
Periods ==
    {"jeonche", "ibeon-dal", "jinan-dal", "choegeun-3gaewol",
     "choegeun-6gaewol", "olhae", "sayongja-jijeong"}

\* The earliest and the latest of a non-empty set of timestamps.
MinTimestamp(ts) == CHOOSE a \in ts : \A b \in ts : TsLeq(a, b)
MaxTimestamp(ts) == CHOOSE a \in ts : \A b \in ts : TsLeq(b, a)

\* get_date_range(period, expenses_df), with the clock reading `today` and,
\* for the custom period, the two dates picked.  error: st.error was shown.
get_date_range(period, expenses_df, today, custom) ==
    CASE period = "ibeon-dal" ->
            [start_date |-> [today EXCEPT !.day = 1], end_date |-> today,
             error |-> FALSE]
      [] period = "jinan-dal" ->
            LET last_month_end == MinusDays([today EXCEPT !.day = 1], 1) IN
            [start_date |-> [last_month_end EXCEPT !.day = 1],
             end_date |-> last_month_end, error |-> FALSE]
      [] period = "choegeun-3gaewol" ->
            [start_date |-> MinusDays(today, 90), end_date |-> today,
             error |-> FALSE]
      [] period = "choegeun-6gaewol" ->
            [start_date |-> MinusDays(today, 180), end_date |-> today,
             error |-> FALSE]
      [] period = "olhae" ->
            [start_date |-> [today EXCEPT !.month = 1, !.day = 1],
             end_date |-> today, error |-> FALSE]
      [] period = "sayongja-jijeong" ->
            LET start_date == custom[1][1]
                end_date == custom[1][2]
            IN  IF DateGreater(start_date, end_date)
                \* "시작 날짜는 종료 날짜보다 이전이어야 합니다."
                THEN [start_date |-> MinusDays(today, 30), end_date |-> today,
                      error |-> TRUE]
                ELSE [start_date |-> AtMidnight(start_date),
                      end_date |-> AtMidnight(end_date), error |-> FALSE]
      [] OTHER ->
            LET ts == {TextToTimestamp(r.date) : r \in expenses_df} IN
            IF expenses_df # {}
            THEN [start_date |-> FromTimestamp(MinTimestamp(ts)),
                  end_date |-> FromTimestamp(MaxTimestamp(ts)), error |-> FALSE]
            ELSE [start_date |-> today, end_date |-> today, error |-> FALSE]

\* Line 339: the rows whose date lies between the two bounds.
FilterByDate(expenses_df, start_date, end_date) ==
    {r \in expenses_df :
        /\ TsLeq(ToTimestamp(start_date), TextToTimestamp(r.date))
        /\ TsLeq(TextToTimestamp(r.date), ToTimestamp(end_date))}

\* df["amount"].sum()
RECURSIVE SumAmounts(_)
SumAmounts(rows) ==
    IF rows = {} THEN 0
    ELSE LET r == CHOOSE x \in rows : TRUE IN
         r.amount + SumAmounts(rows \ {r})

GroupByFirst(rows, col) ==
    [k \in {r[col] : r \in rows} |->
        (CHOOSE r \in rows : r[col] = k).amount]

\* df.groupby(col)["amount"].sum(): one entry per value of the column.
GroupBySum(rows, col) ==
    [k \in {r[col] : r \in rows} |-> SumAmounts({r \in rows : r[col] = k})]

DaysCountExclusive(start_date, end_date) ==
    LET a == ToTimestamp(end_date)
        b == ToTimestamp(start_date)
    IN  (a.ord - b.ord) + ((a.secs - b.secs) \div 86400)

\* Line 357: (pd.to_datetime(end_date) - pd.to_datetime(start_date)).days + 1;
\* the days of a Timedelta are the whole days, rounded down.
DaysCount(start_date, end_date) ==
    LET a == ToTimestamp(end_date)
        b == ToTimestamp(start_date)
    IN  (a.ord - b.ord) + ((a.secs - b.secs) \div 86400) + 1

\* Line 358: the daily average, as the fraction num / den.
AvgDaily(total_expense, days_count) ==
    IF days_count > 0
    THEN [num |-> total_expense, den |-> days_count]
    ELSE [num |-> 0, den |-> 1]

\* round(x, 2) of x = num / den >= 0 in hundredths, ties to even.
RoundHundredths(num, den) ==
    LET q == (num * 100) \div den
        r == (num * 100) % den
    IN  IF 2 * r > den \/ (2 * r = den /\ q % 2 = 1) THEN q + 1 ELSE q

\* Line 385: spent / budget * 100, rounded to two places; pandas divides a
\* positive number by zero to inf.
UsageRate(spent, budget) ==
    IF budget = 0
    THEN [kind |-> "inf"]
    ELSE [kind |-> "finite", hundredths |-> RoundHundredths(spent * 100, budget)]

\* Lines 380-385: budget_vs_spending, one row per category of cat_spending.
BudgetVsSpending(db, cat_spending) ==
    [cat \in DOMAIN cat_spending |->
        LET budget == (CHOOSE c \in get_categories(db) : c.name = cat).budget IN
        [spent |-> cat_spending[cat], budget |-> budget,
         usage_rate |-> UsageRate(cat_spending[cat], budget)]]

\* convert_df_to_csv of a frame with these columns: the header line.
convert_df_to_csv(columns) == columns

\* Line 427: the columns of the table on the screen.
display_columns ==
    <<"id", "date", "category", "subcategory", "amount", "description",
      "payment_method">>

\* The report of one run over the store db.
Report(db, period_option, today, custom) ==
    LET expenses_df_all == get_expenses(db)
        expenses_df == get_expenses(db)
        range == get_date_range(period_option, expenses_df, today, custom)
        filtered_df == FilterByDate(expenses_df, range.start_date, range.end_date)
        total_expense == SumAmounts(filtered_df)
        days_count == DaysCount(range.start_date, range.end_date)
        cat_spending == GroupBySum(filtered_df, "category")
        shown == [op |-> "report", period_option |-> period_option,
                  today |-> today, custom |-> custom,
                  range_error |-> range.error,
                  start_date |-> range.start_date, end_date |-> range.end_date,
                  csv_header |-> IF expenses_df_all # {}
                                 THEN Some(convert_df_to_csv(get_expenses_columns))
                                 ELSE None,
                  filtered_ids |-> {r.id : r \in filtered_df}]
    IN  IF filtered_df = {}
        \* "선택된 기간에 해당하는 지출 데이터가 없습니다."
        THEN [empty |-> TRUE] @@ shown
        ELSE [empty |-> FALSE,
              total_expense |-> total_expense,
              days_count |-> days_count,
              avg_daily |-> AvgDaily(total_expense, days_count),
              cat_spending |-> cat_spending,
              budget_vs_spending |-> BudgetVsSpending(db, cat_spending),
              payment_spending |-> GroupBySum(filtered_df, "payment_method"),
              display_columns |-> display_columns] @@ shown

\* The clock readings of the runs.
Todays ==
    { [year |-> 2024, month |-> 3, day |-> 1, secs |-> 0],
      [year |-> 2024, month |-> 3, day |-> 15, secs |-> 43200] }

\* The dates picked for the custom period.
CustomDates ==
    { [year |-> 2024, month |-> 2, day |-> 29],
      [year |-> 2024, month |-> 3, day |-> 1] }

\* A run in which the user picks a period and reads the report.
ViewReport(period_option, today, custom) ==
    LET db == init_db(DB) IN
    /\ (period_option = "sayongja-jijeong") <=> (custom # None)
    /\ Store(db)
    /\ ui' = Report(db, period_option, today, custom)

\* The submissions of the specifications about reports.
ReportFormInputs ==
    {in \in FormInputs :
        /\ <<in.selected_category, in.selected_subcategory>> \in
              {<<"gita", Some("gita")>>, <<"daechul-ija", Some("jeonse-daechul")>>}
        /\ in.amount_str \in GoodAmountTexts \cup {<<>>}}

NextReport ==
    \/ InitDb
    \/ \E in \in ReportFormInputs : SubmitForm(in)
    \/ \E period_option \in Periods, today \in Todays,
          custom \in {None} \cup {Some(<<s, e>>) : s \in CustomDates, e \in CustomDates} :
          ViewReport(period_option, today, custom)

SpecReport == Init /\ [][NextReport]_vars

\* setBudget(categoryId, newAmount): the budget edit of the category store.
\* A negative amount is a validation error, any other amount is stored.
SetBudget(category_id, new_amount) ==
    /\ \E c \in categories : c.id = category_id
    /\ IF new_amount < 0
       THEN /\ UNCHANGED <<categories, subcategories, expenses, sqlite_sequence>>
            /\ UNCHANGED <<conn, write_lock>>
            /\ ui' = [op |-> "set_budget", msg |-> "validation-error"]
       ELSE /\ categories' =
                  {IF c.id = category_id THEN [c EXCEPT !.budget = new_amount]
                   ELSE c : c \in categories}
            /\ UNCHANGED <<subcategories, expenses, sqlite_sequence>>
            /\ UNCHANGED <<conn, write_lock>>
            /\ ui' = [op |-> "set_budget", msg |-> "saved"]

\* The budget edits tried: of the category "gita" (기타), to these amounts.
BudgetAmounts == {0 - 1, 0, 50000}

NextBudget ==
    \/ NextReport
    \/ \E c \in {x \in categories : x.name = "gita"}, new_amount \in BudgetAmounts :
          SetBudget(c.id, new_amount)

SpecBudget == Init /\ [][NextBudget]_vars

(***************************************************************************)
(* Two executions of init_db at the same time, statement by statement.     *)
(* Each has its own connection (line 25).  sqlite3 opens a transaction     *)
(* before an INSERT and not before a SELECT; the INSERT takes the write    *)
(* lock of the database file, which the connection keeps until it commits; *)
(* what it wrote is seen by the other connection only after the commit.    *)
(* conn[p].txn is the open transaction of p: the store as p sees it.       *)
(***************************************************************************)
\* The store as connection p reads it.
ViewOf(p) == IF conn[p].txn = None THEN DB ELSE conn[p].txn[1]

\* A statement of p that writes can run: p holds the write lock or the lock
\* is free.
CanWrite(p) == write_lock = None \/ write_lock = Some(p)

\* Lines 68-69: SELECT COUNT(*) FROM categories, and the test of it.
CountCategories(p) ==
    /\ conn[p].pc = "count_categories"
    /\ conn' = [conn EXCEPT
                  ![p].pc = IF Cardinality(ViewOf(p).categories) = 0
                            THEN "insert_categories"
                            ELSE "count_subcategories",
                  ![p].i = 1]
    /\ UNCHANGED <<categories, subcategories, expenses, sqlite_sequence, ui,
                   write_lock>>

\* Lines 84-88: the INSERT of default category i; an IntegrityError (the
\* name is there already) is swallowed.
InsertCategory(p) ==
    LET c == conn[p]
        db == ViewOf(p)
        cat == default_categories[c.i]
        after ==
            IF \E r \in db.categories : r.name = cat[1]
            THEN db
            ELSE [db EXCEPT
                    !.categories = @ \cup
                        {[id |-> db.sqlite_sequence.categories + 1,
                          name |-> cat[1], budget |-> cat[2], color |-> cat[3]]},
                    !.sqlite_sequence.categories = @ + 1]
    IN  /\ c.pc = "insert_categories"
        /\ CanWrite(p)
        /\ write_lock' = Some(p)
        /\ conn' = [conn EXCEPT
                      ![p].txn = Some(after),
                      ![p].i = c.i + 1,
                      ![p].pc = IF c.i = Len(default_categories)
                                THEN "commit_categories"
                                ELSE "insert_categories"]
        /\ UNCHANGED <<categories, subcategories, expenses, sqlite_sequence, ui>>

\* conn.commit() of p: what p wrote becomes the store, the lock is released.
Commit(p, next_pc) ==
    /\ IF conn[p].txn = None
       THEN UNCHANGED <<categories, subcategories, expenses, sqlite_sequence,
                        write_lock>>
       ELSE /\ categories' = conn[p].txn[1].categories
            /\ subcategories' = conn[p].txn[1].subcategories
            /\ expenses' = conn[p].txn[1].expenses
            /\ sqlite_sequence' = conn[p].txn[1].sqlite_sequence
            /\ write_lock' = None
    /\ conn' = [conn EXCEPT ![p].txn = None, ![p].pc = next_pc, ![p].i = 1]
    /\ UNCHANGED ui

\* Line 89
CommitCategories(p) ==
    /\ conn[p].pc = "commit_categories"
    /\ Commit(p, "count_subcategories")

\* Lines 91-92: SELECT COUNT(*) FROM subcategories, and the test of it.
CountSubcategories(p) ==
    /\ conn[p].pc = "count_subcategories"
    /\ conn' = [conn EXCEPT
                  ![p].pc = IF Cardinality(ViewOf(p).subcategories) = 0
                            THEN "select_category"
                            ELSE "done",
                  ![p].i = 1]
    /\ UNCHANGED <<categories, subcategories, expenses, sqlite_sequence, ui,
                   write_lock>>

\* Where the loops of lines 107-113 go on after item i.
AfterItem(i) ==
    IF i = Len(default_subcategories)
    THEN [pc |-> "commit_subcategories", i |-> i]
    ELSE [pc |-> "select_category", i |-> i + 1]

\* Lines 108-111: SELECT id FROM categories WHERE name = ? for item i.
SelectCategory(p) ==
    LET c == conn[p]
        found == {r \in ViewOf(p).categories :
                     r.name = default_subcategories[c.i][1]}
    IN  /\ c.pc = "select_category"
        /\ conn' = [conn EXCEPT ![p] =
                IF found = {}
                THEN [c EXCEPT !.pc = AfterItem(c.i).pc, !.i = AfterItem(c.i).i]
                ELSE [c EXCEPT !.pc = "insert_subcategories", !.j = 1,
                               !.cat_id = Some((CHOOSE r \in found : TRUE).id)]]
        /\ UNCHANGED <<categories, subcategories, expenses, sqlite_sequence, ui,
                       write_lock>>

\* Lines 112-113: the INSERT of subcategory j of item i.
InsertSubcategory(p) ==
    LET c == conn[p]
        db == ViewOf(p)
        subcats == default_subcategories[c.i][2]
        after ==
            [db EXCEPT
               !.subcategories = @ \cup
                   {[id |-> db.sqlite_sequence.subcategories + 1,
                     category_id |-> c.cat_id[1], name |-> subcats[c.j]]},
               !.sqlite_sequence.subcategories = @ + 1]
    IN  /\ c.pc = "insert_subcategories"
        /\ CanWrite(p)
        /\ write_lock' = Some(p)
        /\ conn' = [conn EXCEPT ![p] =
                IF c.j = Len(subcats)
                THEN [c EXCEPT !.txn = Some(after), !.pc = AfterItem(c.i).pc,
                               !.i = AfterItem(c.i).i, !.j = 1]
                ELSE [c EXCEPT !.txn = Some(after), !.j = c.j + 1]]
        /\ UNCHANGED <<categories, subcategories, expenses, sqlite_sequence, ui>>

\* Line 114, and the return of line 115
CommitSubcategories(p) ==
    /\ conn[p].pc = "commit_subcategories"
    /\ Commit(p, "done")

\* The write lock is held by the other connection for longer than the
\* timeout of sqlite3.connect (5 seconds): the INSERT raises
\* OperationalError, the connection rolls back, init_db returns False
\* (lines 116-118).
BusyTimeout(p) ==
    /\ conn[p].pc \in {"insert_categories", "insert_subcategories"}
    /\ ~CanWrite(p)
    /\ conn' = [conn EXCEPT ![p].pc = "failed", ![p].txn = None]
    /\ UNCHANGED <<categories, subcategories, expenses, sqlite_sequence, ui,
                   write_lock>>

NextConcurrent ==
    \E p \in Procs :
       \/ CountCategories(p)
       \/ InsertCategory(p)
       \/ CommitCategories(p)
       \/ CountSubcategories(p)
       \/ SelectCategory(p)
       \/ InsertSubcategory(p)
       \/ CommitSubcategories(p)
       \/ BusyTimeout(p)

SpecConcurrent == Init /\ [][NextConcurrent]_vars

(***************************************************************************)
(* The store: add, list, delete, seeding, references, amounts.             *)
(***************************************************************************)
ExpenseIds(db) == {e.id : e \in db.expenses}

\* The amount an amount text of GoodAmountTexts denotes.
DenotedAmount(text) ==
    CASE text = <<"1", ",", "0", "0", "0">> -> 1000
      [] text = <<"5", "0", "0", "0", "0">> -> 50000

\* A saved submission adds to the listing exactly one row, under a fresh id,
\* with the values entered.
AddThenList ==
    (ui'.op = "submit" /\ ui'.msg = "saved") =>
        LET in == ui'.in[1]
            before == get_expenses(DB)
            after == get_expenses(DB')
            added == after \ before
        IN  /\ before \subseteq after
            /\ Cardinality(added) = 1
            /\ \A r \in added :
                  /\ r.id \notin {b.id : b \in before}
                  /\ r.date = strftime(in.expense_date)
                  /\ r.category = in.selected_category
                  /\ r.subcategory = in.selected_subcategory
                  /\ r.amount = DenotedAmount(in.amount_str)
                  /\ r.description = in.description
                  /\ r.payment_method = in.payment_method

\* Deleting listed ids removes exactly their rows from the listing.
DeleteThenList ==
    /\ ui'.op = "delete-selected" =>
          get_expenses(DB') = {r \in get_expenses(DB) : r.id \notin ui'.ids}
    /\ ui'.op = "delete_expense" =>
          get_expenses(DB') = {r \in get_expenses(DB) : r.id # ui'.id}

\* C1: a successful add followed by the unfiltered listing gives the former
\* rows plus exactly one new row that matches the input, and deleting an id
\* removes that row and leaves every other row as it was.
C1_AddListDelete == [][AddThenList /\ DeleteThenList]_vars

\* One record was deleted from the list and another one is still there.
C1_Witness ==
    /\ ui.op = "delete-selected"
    /\ Cardinality(ui.ids) = 1
    /\ expenses # {}
    /\ ui.ids \cap ExpenseIds(DB) = {}

\* Exactly one row for each default category and each default subcategory,
\* and no other row.
OneRowPerDefault(db) ==
    /\ \A i \in 1..Len(default_categories) :
          Cardinality({c \in db.categories :
                          c.name = default_categories[i][1]}) = 1
    /\ Cardinality(db.categories) = Len(default_categories)
    /\ \A i \in 1..Len(default_subcategories) :
          \A j \in 1..Len(default_subcategories[i][2]) :
             Cardinality({s \in db.subcategories :
                 /\ s.name = default_subcategories[i][2][j]
                 /\ \E c \in db.categories :
                       /\ c.id = s.category_id
                       /\ c.name = default_subcategories[i][1]}) = 1
    /\ \A s \in db.subcategories :
          \E i \in 1..Len(default_subcategories) :
             /\ \E c \in db.categories :
                   c.id = s.category_id /\ c.name = default_subcategories[i][1]
             /\ \E j \in 1..Len(default_subcategories[i][2]) :
                   s.name = default_subcategories[i][2][j]

\* C2: seeding is idempotent: once init_db has run there is exactly one row
\* per default category and per default subcategory, whatever was added or
\* deleted since, and a later run of init_db inserts nothing.
C2_SeedIdempotent ==
    /\ [](categories # {} => OneRowPerDefault(DB))
    /\ [][(ui'.op = "init_db" /\ categories # {}) =>
             /\ categories' = categories
             /\ subcategories' = subcategories
             /\ sqlite_sequence' = sqlite_sequence]_vars

\* init_db has run again after expenses were added.
C2_Witness ==
    /\ ui.op = "init_db"
    /\ sqlite_sequence.expenses > 0
    /\ OneRowPerDefault(DB)

\* C3: every stored expense refers to an existing category, and its
\* subcategory, if any, is a subcategory of that category.
C3_ReferentialIntegrity ==
    \A e \in expenses :
       /\ \E c \in categories : c.id = e.category_id
       /\ e.subcategory_id # None =>
             \E s \in subcategories :
                /\ Some(s.id) = e.subcategory_id
                /\ s.category_id = e.category_id

\* Two expenses with subcategories of different categories are stored.
C3_Witness ==
    \E e1 \in expenses, e2 \in expenses :
       /\ e1.category_id # e2.category_id
       /\ e1.subcategory_id # None
       /\ e2.subcategory_id # None

\* C4: every stored amount is strictly positive, and a submission whose
\* amount text is empty, unparsable, zero or negative is rejected with an
\* error and stores nothing.
C4_PositiveAmounts ==
    /\ [](\A e \in expenses : e.amount > 0)
    /\ [][(ui'.op = "submit" /\ ui'.amount_str \in BadAmountTexts) =>
             /\ ui'.msg = "error-amount"
             /\ expenses' = expenses
             /\ sqlite_sequence'.expenses = sqlite_sequence.expenses]_vars

\* A submission with a bad amount text was rejected while a record is stored.
C4_Witness ==
    /\ ui.op = "submit"
    /\ ui.amount_str \in BadAmountTexts
    /\ ui.msg = "error-amount"
    /\ expenses # {}

\* C6: delete_expense with an id that is not in the table reports a
\* not-found error instead of success and leaves the expenses as they are;
\* with an id that is in the table it removes that record.
C6_DeleteNotFound ==
    [][ui'.op = "delete_expense" =>
          IF ui'.id \in ExpenseIds(DB)
          THEN expenses' = {e \in expenses : e.id # ui'.id}
          ELSE ui'.msg = "not-found" /\ expenses' = expenses]_vars

(***************************************************************************)
(* The reports.                                                            *)
(***************************************************************************)
\* The rows the report is about.
FilteredRows == {r \in get_expenses(DB) : r.id \in ui.filtered_ids}

RECURSIVE SumValues(_)
SumValues(f) ==
    IF DOMAIN f = {} THEN 0
    ELSE LET k == CHOOSE x \in DOMAIN f : TRUE IN
         f[k] + SumValues([x \in DOMAIN f \ {k} |-> f[x]])

\* C5: a custom period whose start is later than its end gives a validation
\* error and no range: what the caller gets is neither the two dates swapped
\* nor a fallback window such as the last 30 days.
C5_InvertedCustomRange ==
    (/\ ui.op = "report"
     /\ ui.period_option = "sayongja-jijeong"
     /\ DateGreater(ui.custom[1][1], ui.custom[1][2]))
    => (/\ ui.range_error
        /\ ~(/\ ui.start_date = AtMidnight(ui.custom[1][2])
             /\ ui.end_date = AtMidnight(ui.custom[1][1]))
        /\ ~(/\ ui.start_date = MinusDays(ui.today, 30)
             /\ ui.end_date = ui.today)
        /\ ui.filtered_ids = {})

\* C7: the sums per category and the sums per payment method each add up
\* to the total, and the two breakdowns have exactly the categories and the
\* payment methods of the rows of the period.
C7_BreakdownsSumToTotal ==
    (ui.op = "report" /\ ~ui.empty) =>
        /\ ui.total_expense = SumAmounts(FilteredRows)
        /\ SumValues(ui.cat_spending) = ui.total_expense
        /\ SumValues(ui.payment_spending) = ui.total_expense
        /\ DOMAIN ui.cat_spending = {r.category : r \in FilteredRows}
        /\ DOMAIN ui.payment_spending = {r.payment_method : r \in FilteredRows}

\* A report over rows of two categories, two of them paid the same way.
C7_Witness ==
    /\ ui.op = "report"
    /\ ~ui.empty
    /\ Cardinality(DOMAIN ui.cat_spending) = 2
    /\ Cardinality(DOMAIN ui.payment_spending) = 1
    /\ Cardinality(ui.filtered_ids) = 2

\* C8: a utilization is computed, as spent / ceiling * 100, only for a
\* category with a positive ceiling; a category with a zero ceiling and
\* spending in the period has no entry, and no value comes from a division
\* by a zero ceiling.
C8_UtilizationPositiveCeiling ==
    (ui.op = "report" /\ ~ui.empty) =>
        \A cat \in DOMAIN ui.budget_vs_spending :
           LET row == ui.budget_vs_spending[cat] IN
           /\ row.budget > 0
           /\ row.usage_rate.kind = "finite"
           /\ row.usage_rate.hundredths =
                 RoundHundredths(ui.cat_spending[cat] * 100, row.budget)

\* C9: the daily average of a non-empty report is the total divided by the
\* number of calendar days from the start day to the end day, both counted,
\* and that number is at least 1.
C9_DailyAverage ==
    (ui.op = "report" /\ ~ui.empty) =>
        LET first == ymd2ord(ui.start_date.year, ui.start_date.month, ui.start_date.day)
            last == ymd2ord(ui.end_date.year, ui.end_date.month, ui.end_date.day)
            days == Cardinality(first..last)
        IN  /\ days >= 1
            /\ ui.days_count = days
            /\ ui.avg_daily = [num |-> ui.total_expense, den |-> days]

\* A report over a period of a single day.
C9_Witness ==
    /\ ui.op = "report"
    /\ ~ui.empty
    /\ ui.days_count = 1
    /\ ui.avg_daily.num > 0

\* C10: the table on the screen and the CSV export have the same columns
\* in the same order.
C10_SameColumns ==
    (ui.op = "report" /\ ~ui.empty /\ ui.csv_header # None) =>
        /\ ui.csv_header = Some(ui.display_columns)
        /\ ui.display_columns =
              <<"id", "date", "category", "subcategory", "amount",
                "description", "payment_method">>

\* The calendar day of a date text and of a datetime.
DayOfText(text) == ymd2ord(text[1], text[2], text[3])
DayOf(dt) == ymd2ord(dt.year, dt.month, dt.day)

\* C11: the period filter is a closed interval of calendar dates: whatever
\* the period and the time of day, the rows of the report are exactly the
\* expenses dated from the start day to the end day, both included, so an
\* expense dated on the first day of today's month is in this month's report.
C11_ClosedDateInterval ==
    ui.op = "report" =>
        ui.filtered_ids =
            {r.id : r \in {x \in get_expenses(DB) :
                /\ DayOf(ui.start_date) <= DayOfText(x.date)
                /\ DayOfText(x.date) <= DayOf(ui.end_date)}}

\* Both executions of init_db have returned.
BothReturned == \A p \in Procs : conn[p].pc \in {"done", "failed"}

\* C12: however two executions of init_db on the empty store interleave,
\* when both have returned there is exactly one row per default category
\* and exactly one row per default subcategory.
C12_ConcurrentSeedNoDuplicates ==
    BothReturned => OneRowPerDefault(DB)

=============================================================================
